---- MODULE Spec2Model ----
(***************************************************************************)
(* Supermarket Sales API (app/main.py, app/models.py, app/database.py).    *)
(*                                                                         *)
(* The store holds two tables, products and sales.  Every request is run   *)
(* by a worker thread of the framework's pool with its own Session, so the *)
(* handlers of two requests interleave at their database statements.       *)
(*                                                                         *)
(* Time is counted in ticks of the server's clock; a calendar day has      *)
(* TicksPerDay ticks (a tick stands for the timestamp resolution, the      *)
(* microsecond).  Prices are counted in a dyadic unit, so that the float   *)
(* product price * quantity is exact, as it is for 1.5 * 4 in the tests.   *)
(***************************************************************************)
EXTENDS Integers, Sequences, FiniteSets, TLC

\* ---- bounds -------------------------------------------------------------
\* worker threads, rows per table, the largest quantity of a request, the
\* last tick of the clock, the ticks of a day
NumThreads == 2
MaxProducts == 2
MaxSales == 2
MaxQty == 2
MaxClock == 2
TicksPerDay == 2

Threads == 1..NumThreads
ProductPayloads ==
    {[name |-> "Apple", price |-> 1], [name |-> "Apple", price |-> 2],
     [name |-> "Pear", price |-> 2],
     [name |-> "", price |-> 1], [name |-> "Pear", price |-> 0]}
Quantities == 0..MaxQty
ProductIds == 1..MaxProducts
Days == 0..(MaxClock \div TicksPerDay)
TzOffsets == {0, 1}
Queries == UNION {[K -> Days] : K \in {{}, {"d"}, {"date"}}}

VARIABLES
    products,    \* table products, rows in id order
    sales,       \* table sales, rows in id order
    SALE_COUNT,  \* Counter("sales_total")
    clock,       \* the server's clock, in UTC ticks
    tz,          \* the server's timezone offset, in ticks
    pc,          \* per thread: the statement its handler is at
    loc,         \* per thread: the handler's local variables
    resp         \* per thread: the response of the finished handler

vars == <<products, sales, SALE_COUNT, clock, tz, pc, loc, resp>>

NoLoc == [op |-> "none"]
NoResp == [op |-> "none", status |-> 0]

RECURSIVE SumTotal(_)
SumTotal(rows) ==
    IF rows = <<>> THEN 0 ELSE Head(rows).total + SumTotal(Tail(rows))

RECURSIVE SumQuantity(_)
SumQuantity(rows) ==
    IF rows = <<>> THEN 0 ELSE Head(rows).quantity + SumQuantity(Tail(rows))

\* ---- validation (pydantic models) ---------------------------------------
ProductInValid(name, price) == Len(name) >= 1 /\ price > 0

SaleInValid(product_id, quantity) == quantity > 0

\* ---- clock ---------------------------------------------------------------
\* datetime.utcnow(): the default of Sale.created_at
UtcNow == clock

\* date.today(): the calendar day of the server's local time
Today == (clock + tz) \div TicksPerDay

\* datetime.combine(d, datetime.min.time())
StartOfDay(d) == d * TicksPerDay

\* datetime.combine(d, datetime.max.time())
EndOfDay(d) == d * TicksPerDay + (TicksPerDay - 1)

\* ---- queries ---------------------------------------------------------------
\* the plausible slip of comparing the name with the wrong column
FirstByName_Never(name) == <<>>

\* db.query(Product).filter(Product.name == name).first(), <<>> for None
FirstByName(name) ==
    LET hits == SelectSeq(products, LAMBDA p : p.name = name)
    IN  IF hits = <<>> THEN <<>> ELSE <<Head(hits)>>

\* the plausible slip of declaring the column without unique=True
UniqueViolation_Off(name) == FALSE

\* the UNIQUE constraint of products.name, checked by the store on INSERT
UniqueViolation(name) == \E i \in 1..Len(products) : products[i].name = name

\* db.query(Product).order_by(Product.id).all()
ListProducts == products

\* the plausible slip of taking the first product whatever the id
GetProduct_Any(product_id) ==
    IF products # <<>> THEN <<products[1]>> ELSE <<>>

\* db.get(Product, product_id), <<>> for None
GetProduct(product_id) ==
    IF product_id \in 1..Len(products) THEN <<products[product_id]>> ELSE <<>>

\* the plausible slip of an addition for the multiplication
SaleTotal_Sum(product, quantity) == product.price + quantity

\* total = product.price * payload.quantity
SaleTotal(product, quantity) == product.price * quantity

\* the plausible slip of an end of day that is excluded
InRange_Open(s, start_dt, end_dt) == s.created_at >= start_dt /\ s.created_at < end_dt

\* filter(Sale.created_at >= start_dt, Sale.created_at <= end_dt)
InRange(s, start_dt, end_dt) == s.created_at >= start_dt /\ s.created_at <= end_dt

\* one execution of the query q
RunQuery(start_dt, end_dt) ==
    SelectSeq(sales, LAMBDA s : InRange(s, start_dt, end_dt))

\* the plausible slip of a parameter the framework never binds
BindD_Never(query) == <<>>

\* the binding of the handler's parameter d from the query string
BindD(query) == IF "d" \in DOMAIN query THEN <<query["d"]>> ELSE <<>>

\* ---- threads -----------------------------------------------------------------
InFlight(label) == Cardinality({t \in Threads : pc[t] = label})

Finish(t, r) ==
    /\ pc' = [pc EXCEPT ![t] = "done"]
    /\ loc' = [loc EXCEPT ![t] = NoLoc]
    /\ resp' = [resp EXCEPT ![t] = r]

Goto(t, label, l) ==
    /\ pc' = [pc EXCEPT ![t] = label]
    /\ loc' = [loc EXCEPT ![t] = l]
    /\ UNCHANGED resp

Init ==
    /\ products = <<>>
    /\ sales = <<>>
    /\ SALE_COUNT = 0
    /\ clock = 0
    /\ tz \in TzOffsets
    /\ pc = [t \in Threads |-> "idle"]
    /\ loc = [t \in Threads |-> NoLoc]
    /\ resp = [t \in Threads |-> NoResp]

\* ---- POST /products ------------------------------------------------------------
\* validation of the payload, then the existence lookup
CreateProductLookup(t, name, price) ==
    LET payload == [name |-> name, price |-> price]
    IN  /\ pc[t] = "idle"
        /\ (ProductInValid(name, price) /\ FirstByName(name) = <<>>)
               => Len(products) + InFlight("cp_commit") < MaxProducts
        /\ UNCHANGED <<products, sales, SALE_COUNT, clock, tz>>
        /\ IF ~ProductInValid(name, price)
           THEN Finish(t, [op |-> "create_product", status |-> 422,
                           payload |-> payload])
           ELSE IF FirstByName(name) # <<>>
           THEN Finish(t, [op |-> "create_product", status |-> 400,
                           detail |-> "Product already exists",
                           payload |-> payload])
           ELSE Goto(t, "cp_commit",
                     [op |-> "create_product", payload |-> payload])

\* db.add(p); db.commit(); db.refresh(p); return p
CreateProductCommit(t) ==
    /\ pc[t] = "cp_commit"
    /\ UNCHANGED <<sales, SALE_COUNT, clock, tz>>
    /\ IF UniqueViolation(loc[t].payload.name)
       THEN /\ UNCHANGED products
            /\ Finish(t, [op |-> "create_product", status |-> 500,
                          payload |-> loc[t].payload])
       ELSE LET p == [id |-> Len(products) + 1, name |-> loc[t].payload.name,
                      price |-> loc[t].payload.price]
            IN  /\ products' = Append(products, p)
                /\ Finish(t, [op |-> "create_product", status |-> 201,
                              payload |-> loc[t].payload, row |-> p])

\* ---- POST /sales -----------------------------------------------------------------
\* the plausible slip of counting the attempt of a sale, not the sale
CreateSaleLookup_CountsFailures(t, product_id, quantity) ==
    LET payload == [product_id |-> product_id, quantity |-> quantity]
        product == GetProduct(product_id)
    IN  /\ pc[t] = "idle"
        /\ (SaleInValid(product_id, quantity) /\ product # <<>>)
               => Len(sales) + InFlight("cs_commit") < MaxSales
        /\ UNCHANGED <<products, sales, clock, tz>>
        /\ IF ~SaleInValid(product_id, quantity)
           THEN /\ Finish(t, [op |-> "create_sale", status |-> 422,
                              payload |-> payload])
                /\ UNCHANGED SALE_COUNT
           ELSE IF product = <<>>
           THEN /\ Finish(t, [op |-> "create_sale", status |-> 404,
                              detail |-> "Product not found",
                              payload |-> payload])
                /\ SALE_COUNT' = SALE_COUNT + 1
           ELSE /\ Goto(t, "cs_commit",
                        [op |-> "create_sale", payload |-> payload,
                         product |-> product[1],
                         total |-> SaleTotal(product[1], quantity)])
                /\ UNCHANGED SALE_COUNT

\* the plausible slip of leaving out the check of the product
CreateSaleLookup_NoCheck(t, product_id, quantity) ==
    LET payload == [product_id |-> product_id, quantity |-> quantity]
        product == GetProduct(product_id)
    IN  /\ pc[t] = "idle"
        /\ (SaleInValid(product_id, quantity) /\ product # <<>>)
               => Len(sales) + InFlight("cs_commit") < MaxSales
        /\ UNCHANGED <<products, sales, SALE_COUNT, clock, tz>>
        /\ IF ~SaleInValid(product_id, quantity)
           THEN Finish(t, [op |-> "create_sale", status |-> 422,
                           payload |-> payload])
           ELSE IF product = <<>>
           THEN Goto(t, "cs_commit",
                     [op |-> "create_sale", payload |-> payload,
                      product |-> [id |-> product_id, name |-> "", price |-> 0],
                      total |-> 0])
           ELSE Goto(t, "cs_commit",
                     [op |-> "create_sale", payload |-> payload,
                      product |-> product[1],
                      total |-> SaleTotal(product[1], quantity)])

\* validation of the payload, then the product lookup and the total
CreateSaleLookup(t, product_id, quantity) ==
    LET payload == [product_id |-> product_id, quantity |-> quantity]
        product == GetProduct(product_id)
    IN  /\ pc[t] = "idle"
        /\ (SaleInValid(product_id, quantity) /\ product # <<>>)
               => Len(sales) + InFlight("cs_commit") < MaxSales
        /\ UNCHANGED <<products, sales, SALE_COUNT, clock, tz>>
        /\ IF ~SaleInValid(product_id, quantity)
           THEN Finish(t, [op |-> "create_sale", status |-> 422,
                           payload |-> payload])
           ELSE IF product = <<>>
           THEN Finish(t, [op |-> "create_sale", status |-> 404,
                           detail |-> "Product not found",
                           payload |-> payload])
           ELSE Goto(t, "cs_commit",
                     [op |-> "create_sale", payload |-> payload,
                      product |-> product[1],
                      total |-> SaleTotal(product[1], quantity)])

\* s = Sale(...); db.add(s); db.commit(); db.refresh(s)
CreateSaleCommit(t) ==
    /\ pc[t] = "cs_commit"
    /\ LET s == [id |-> Len(sales) + 1, product_id |-> loc[t].product.id,
                 quantity |-> loc[t].payload.quantity, total |-> loc[t].total,
                 created_at |-> UtcNow]
       IN  /\ sales' = Append(sales, s)
           /\ Goto(t, "cs_inc", [op |-> "create_sale",
                                 payload |-> loc[t].payload, s |-> s])
    /\ UNCHANGED <<products, SALE_COUNT, clock, tz>>

\* SALE_COUNT.inc(); return s
CreateSaleInc(t) ==
    /\ pc[t] = "cs_inc"
    /\ SALE_COUNT' = SALE_COUNT + 1
    /\ Finish(t, [op |-> "create_sale", status |-> 201,
                  payload |-> loc[t].payload, row |-> loc[t].s])
    /\ UNCHANGED <<products, sales, clock, tz>>

\* ---- GET /reports/daily ------------------------------------------------------------
\* the default of d, the bounds of the day, the first scan of q
DailyReportRevenue(t, query) ==
    /\ pc[t] = "idle"
    /\ LET bound == BindD(query)
           d == IF bound = <<>> THEN Today ELSE bound[1]
           start_dt == StartOfDay(d)
           end_dt == EndOfDay(d)
       IN  Goto(t, "dr_items",
                [op |-> "daily_report", query |-> query, d |-> d,
                 start_dt |-> start_dt, end_dt |-> end_dt,
                 total_revenue |-> SumTotal(RunQuery(start_dt, end_dt)),
                 seen |-> Len(sales)])
    /\ UNCHANGED <<products, sales, SALE_COUNT, clock, tz>>

\* the second scan of q, then the DailyReport
DailyReportItems(t) ==
    /\ pc[t] = "dr_items"
    /\ Finish(t, [op |-> "daily_report", status |-> 200,
                  date |-> loc[t].d,
                  total_revenue |-> loc[t].total_revenue,
                  total_items |->
                      SumQuantity(RunQuery(loc[t].start_dt, loc[t].end_dt))])
    /\ UNCHANGED <<products, sales, SALE_COUNT, clock, tz>>

\* ---- the framework -------------------------------------------------------------------
\* the response is sent and the worker takes the next request
Respond(t) ==
    /\ pc[t] = "done"
    /\ pc' = [pc EXCEPT ![t] = "idle"]
    /\ resp' = [resp EXCEPT ![t] = NoResp]
    /\ UNCHANGED <<products, sales, SALE_COUNT, clock, tz, loc>>

\* the server's clock advances
Tick ==
    /\ clock < MaxClock
    /\ clock' = clock + 1
    /\ UNCHANGED <<products, sales, SALE_COUNT, tz, pc, loc, resp>>

Next ==
    \/ \E t \in Threads, p \in ProductPayloads :
           CreateProductLookup(t, p.name, p.price)
    \/ \E t \in Threads : CreateProductCommit(t)
    \/ \E t \in Threads, product_id \in ProductIds, quantity \in Quantities :
           CreateSaleLookup(t, product_id, quantity)
    \/ \E t \in Threads : CreateSaleCommit(t)
    \/ \E t \in Threads : CreateSaleInc(t)
    \/ \E t \in Threads, query \in Queries : DailyReportRevenue(t, query)
    \/ \E t \in Threads : DailyReportItems(t)
    \/ \E t \in Threads : Respond(t)
    \/ Tick

Spec == Init /\ [][Next]_vars

\* ---- vocabulary of the properties -------------------------------------------------
\* the request a thread is serving or has served, with the handler's record of it
Started(t) == IF pc[t] = "done" THEN resp[t] ELSE loc[t]

\* thread t takes a request of the operation op in this step
Starts(t, op) == pc[t] = "idle" /\ pc'[t] # "idle" /\ Started(t)'.op = op

ProductIdSet == {products[i].id : i \in 1..Len(products)}

ProductNameSet == {products[i].name : i \in 1..Len(products)}

PriceOf(id) ==
    products[CHOOSE i \in 1..Len(products) : products[i].id = id].price

\* the calendar day a timestamp lies in
DayOf(ts) == ts \div TicksPerDay

\* the rows of the sales table stamped on day d, among the first n rows
RowsOfDay(rows, n, d) ==
    {i \in 1..n : i <= Len(rows) /\ DayOf(rows[i].created_at) = d}

RECURSIVE TotalOver(_, _)
TotalOver(rows, S) ==
    IF S = {} THEN 0
    ELSE LET i == CHOOSE x \in S : TRUE
         IN  rows[i].total + TotalOver(rows, S \ {i})

RECURSIVE QuantityOver(_, _)
QuantityOver(rows, S) ==
    IF S = {} THEN 0
    ELSE LET i == CHOOSE x \in S : TRUE
         IN  rows[i].quantity + QuantityOver(rows, S \ {i})

\* the createSale request that committed row i of sales has returned
Returned(i) == \A u \in Threads : pc[u] = "cs_inc" => loc[u].s.id # i

InFlightSales == {t \in Threads : pc[t] \in {"cs_commit", "cs_inc"}}

\* ---- C1 ----------------------------------------------------------------------------
\* C1: in every reachable state no two rows of products have the same name,
\* also when two requests with one name both look the name up before either
\* commits its insert.
C1_UniqueNames ==
    \A i, j \in 1..Len(products) :
        products[i].name = products[j].name => i = j

\* both requests passed the lookup; one committed, the other was refused
C1_Witness ==
    \E t, u \in Threads :
        /\ t # u
        /\ pc[t] = "done" /\ resp[t].op = "create_product"
        /\ resp[t].status = 201
        /\ pc[u] = "done" /\ resp[u].op = "create_product"
        /\ resp[u].status = 500
        /\ resp[u].payload.name = resp[t].row.name

\* ---- C2 ----------------------------------------------------------------------------
\* C2: a (valid) createProduct request whose name is the name of a product in
\* the store is answered 400 'Product already exists', and listProducts
\* returns after the request what it returned before it.
C2_DuplicateRejected ==
    [][\A t \in Threads :
          (/\ Starts(t, "create_product")
           /\ Len(Started(t)'.payload.name) >= 1
           /\ Started(t)'.payload.price > 0
           /\ Started(t)'.payload.name \in ProductNameSet)
          => /\ pc'[t] = "done"
             /\ resp'[t].status = 400
             /\ resp'[t].detail = "Product already exists"
             /\ ListProducts' = ListProducts]_vars

C2_Witness ==
    \E t \in Threads :
        /\ pc[t] = "done" /\ resp[t].op = "create_product"
        /\ resp[t].status = 400
        /\ resp[t].payload.name \in ProductNameSet
        /\ Len(products) = 1

\* ---- C3 ----------------------------------------------------------------------------
\* C3: a createSale(productId, quantity) with an existing product and
\* quantity > 0 succeeds with 201, adds exactly one row to sales, that row has
\* the requested product and quantity and total = price * quantity, and the
\* total of every row stays that value in all later states.
SaleRowsConsistent ==
    \A i \in 1..Len(sales) :
        /\ sales[i].product_id \in ProductIdSet
        /\ sales[i].total = PriceOf(sales[i].product_id) * sales[i].quantity

C3_SaleTotal ==
    [][/\ \A t \in Threads :
            (/\ Starts(t, "create_sale")
             /\ Started(t)'.payload.product_id \in ProductIdSet
             /\ Started(t)'.payload.quantity > 0)
            => pc'[t] = "cs_commit" /\ sales' = sales
       /\ \A t \in Threads :
            (pc[t] = "cs_commit" /\ pc'[t] # "cs_commit")
            => /\ pc'[t] = "cs_inc"
               /\ Len(sales') = Len(sales) + 1
               /\ LET r == sales'[Len(sales')]
                  IN  /\ r.product_id = loc[t].payload.product_id
                      /\ r.quantity = loc[t].payload.quantity
                      /\ r.product_id \in ProductIdSet
                      /\ r.total = PriceOf(r.product_id) * r.quantity
                      /\ loc'[t].s = r
       /\ \A t \in Threads :
            (pc[t] = "cs_inc" /\ pc'[t] # "cs_inc")
            => /\ pc'[t] = "done"
               /\ resp'[t].status = 201
               /\ resp'[t].row = loc[t].s
               /\ sales' = sales
       /\ \A i \in 1..Len(sales) : i <= Len(sales') /\ sales'[i] = sales[i]
       /\ SaleRowsConsistent'
      ]_vars

C3_Witness ==
    \E t \in Threads :
        /\ pc[t] = "done" /\ resp[t].op = "create_sale"
        /\ resp[t].status = 201
        /\ resp[t].row.quantity > 1
        /\ PriceOf(resp[t].row.product_id) > 1
        /\ resp[t].row.total = PriceOf(resp[t].row.product_id) * resp[t].row.quantity
        /\ sales[resp[t].row.id] = resp[t].row

\* ---- C4 ----------------------------------------------------------------------------
\* C4: a (valid) createSale request whose product_id is the id of no product
\* is answered 404 'Product not found'; no row of sales is written, products
\* is unchanged and the counter sales_total is not incremented.
C4_UnknownProductRejected ==
    [][\A t \in Threads :
          (/\ Starts(t, "create_sale")
           /\ Started(t)'.payload.quantity > 0
           /\ Started(t)'.payload.product_id \notin ProductIdSet)
          => /\ pc'[t] = "done"
             /\ resp'[t].status = 404
             /\ resp'[t].detail = "Product not found"
             /\ sales' = sales
             /\ products' = products
             /\ SALE_COUNT' = SALE_COUNT]_vars

C4_Witness ==
    \E t \in Threads :
        /\ pc[t] = "done" /\ resp[t].op = "create_sale"
        /\ resp[t].status = 404
        /\ resp[t].payload.product_id \notin ProductIdSet
        /\ products # <<>>
        /\ sales # <<>>

\* ---- C5 ----------------------------------------------------------------------------
\* C5: in every reachable state the product_id of every row of sales is the
\* id of a row of products.
C5_SalesReferProducts ==
    \A i \in 1..Len(sales) : sales[i].product_id \in ProductIdSet

C5_Witness ==
    /\ Len(sales) >= 2
    /\ sales[1].product_id # sales[2].product_id
    /\ {sales[1].product_id, sales[2].product_id} \subseteq ProductIdSet

\* ---- C6 ----------------------------------------------------------------------------
\* C6: with no write between its two scans, dailyReport(day) returns as
\* total_revenue the sum of total and as total_items the sum of quantity over
\* exactly the sales stamped from the first to the last tick of the day (both
\* 0 when there is none).
C6_ReportSumsDay ==
    [][\A t \in Threads :
          (/\ pc[t] = "dr_items" /\ pc'[t] = "done"
           /\ loc[t].seen = Len(sales))
          => LET S == RowsOfDay(sales, Len(sales), resp'[t].date)
             IN  /\ resp'[t].total_revenue = TotalOver(sales, S)
                 /\ resp'[t].total_items = QuantityOver(sales, S)]_vars

\* a sale at the last tick of day 0 is counted, one at the first tick of
\* day 1 is not
C6_Witness ==
    \E t \in Threads :
        /\ pc[t] = "done" /\ resp[t].op = "daily_report"
        /\ resp[t].date = 0
        /\ Len(sales) = 2
        /\ sales[1].created_at = TicksPerDay - 1
        /\ sales[2].created_at = TicksPerDay
        /\ resp[t].total_revenue = sales[1].total
        /\ resp[t].total_items = sales[1].quantity

\* ---- C7 ----------------------------------------------------------------------------
\* C7: a dailyReport without a date, made at the clock instant of a sale
\* whose createSale has returned, counts that sale: total_revenue >= the
\* sale's total and total_items >= the sale's quantity, for every timezone
\* offset of the server.
C7_TodayCountsNewSale ==
    [][/\ \A t \in Threads :
            (Starts(t, "daily_report") /\ DOMAIN loc'[t].query = {})
            => \A i \in 1..Len(sales) :
                   (sales[i].created_at = clock /\ Returned(i))
                   => loc'[t].total_revenue >= sales[i].total
       /\ \A t \in Threads :
            (/\ pc[t] = "dr_items" /\ pc'[t] = "done"
             /\ DOMAIN loc[t].query = {})
            => /\ resp'[t].total_revenue = loc[t].total_revenue
               /\ \A i \in 1..loc[t].seen :
                      (sales[i].created_at = clock /\ Returned(i))
                      => resp'[t].total_items >= sales[i].quantity
      ]_vars

\* ---- C8 ----------------------------------------------------------------------------
\* C8 as stated: a daily-report request with the query parameter `date` = D
\* returns a report of day D.
C8_DateParamSelectsDay ==
    [][\A t \in Threads :
          (/\ pc[t] = "dr_items" /\ pc'[t] = "done"
           /\ "date" \in DOMAIN loc[t].query)
          => resp'[t].date = loc[t].query["date"]]_vars

\* C8 as amended: a daily-report request with the query parameter `d` = D
\* returns a report whose date is D and whose totals are sums over the sales
\* of day D that its scans find; without `d` (a parameter `date` is ignored)
\* the report is of the server's current local date.
C8_DParamSelectsDay ==
    [][/\ \A t \in Threads :
            Starts(t, "daily_report")
            => LET q == loc'[t].query
                   D == IF "d" \in DOMAIN q THEN q["d"] ELSE DayOf(clock + tz)
               IN  /\ loc'[t].d = D
                   /\ loc'[t].total_revenue =
                          TotalOver(sales, RowsOfDay(sales, Len(sales), D))
       /\ \A t \in Threads :
            (pc[t] = "dr_items" /\ pc'[t] = "done")
            => /\ resp'[t].date = loc[t].d
               /\ resp'[t].total_revenue = loc[t].total_revenue
               /\ resp'[t].total_items =
                      QuantityOver(sales, RowsOfDay(sales, Len(sales), loc[t].d))
      ]_vars

\* a report of a day that is not the server's day, with a sale in it
C8_Witness ==
    \E t \in Threads :
        /\ pc[t] = "dr_items"
        /\ "d" \in DOMAIN loc[t].query
        /\ loc[t].d = loc[t].query["d"]
        /\ loc[t].d # Today
        /\ loc[t].total_revenue > 0

\* ---- C9 ----------------------------------------------------------------------------
\* C9: every report is the pair of sums over one set S of sales of the
\* requested day, also when sales commit while the report is computed.
C9_ReportOverOneSet ==
    \A t \in Threads :
        (pc[t] = "done" /\ resp[t].op = "daily_report")
        => \E S \in SUBSET RowsOfDay(sales, Len(sales), resp[t].date) :
               /\ resp[t].total_revenue = TotalOver(sales, S)
               /\ resp[t].total_items = QuantityOver(sales, S)

\* ---- C10 ---------------------------------------------------------------------------
\* C10: the counter sales_total is at most the number of rows of sales, and
\* equals it whenever no createSale request is in flight.
C10_SaleCountMatchesLedger ==
    /\ SALE_COUNT <= Len(sales)
    /\ InFlightSales = {} => SALE_COUNT = Len(sales)

\* a failed createSale has returned and the counter is the number of rows
C10_Witness ==
    \E t \in Threads :
        /\ pc[t] = "done" /\ resp[t].op = "create_sale"
        /\ resp[t].status = 404
        /\ InFlightSales = {}
        /\ SALE_COUNT = Len(sales)
        /\ SALE_COUNT >= 1
====
